---- MODULE Spec2Model ----
(***************************************************************************)
(* State object of one account (core/state/state_object.go) and the        *)
(* snapshot value codec (core/state/snapshot/snapshot_value.go).           *)
(*                                                                         *)
(* A byte string is a sequence of 0..255.  A common.Hash is a byte string  *)
(* of HashLength bytes.  Storage keys are abstract (the code only hashes   *)
(* and compares them); storage values are kept as the small number whose   *)
(* 32-byte big-endian word the common.Hash is, and every conversion the    *)
(* code performs on them goes through the byte strings.                    *)
(***************************************************************************)
EXTENDS Integers, Sequences, FiniteSets, TLC

VARIABLES
    cdc,           \* the codec call in progress (SpecCodec)
    s,             \* the stateObject, with the fields of its StateDB under s.db
    lastOp,        \* the last call made on the object: arguments and results
    txBase,        \* what GetState, the balance and the nonce gave when the transaction began
    cp,            \* the object deepCopy made of s, and the calls counted in a bounded block
    kv             \* the storage-snapshot records of the key-value store

Nil == "nil"

----------------------------------------------------------------------------
(* Bytes and common.Hash *)

HashLength == 32

Byte == 0..255

RECURSIVE TrimLeftZeroes(_)
TrimLeftZeroes(b) ==
    IF b = <<>> THEN <<>>
    ELSE IF b[1] = 0 THEN TrimLeftZeroes(Tail(b)) ELSE b

Zeroes(n) == [i \in 1..n |-> 0]

\* common.BytesToHash: crops from the left when too long, left-pads with zeroes
BytesToHash(b) ==
    IF Len(b) >= HashLength
    THEN SubSeq(b, Len(b) - HashLength + 1, Len(b))
    ELSE Zeroes(HashLength - Len(b)) \o b

\* the common.Hash of a small word: big-endian, one significant byte
WordHash(v) == BytesToHash(IF v = 0 THEN <<>> ELSE <<v>>)

\* the word of a common.Hash (Hash.SetBytes then compared as a value)
RECURSIVE BigEndian(_)
BigEndian(b) ==
    IF b = <<>> THEN 0 ELSE BigEndian(SubSeq(b, 1, Len(b) - 1)) * 256 + b[Len(b)]

HashWord(h) == BigEndian(TrimLeftZeroes(h))

----------------------------------------------------------------------------
(* The RLP primitives the codec calls (github.com/ethereum/go-ethereum/rlp) *)

\* minimal big-endian bytes of an unsigned integer
RECURSIVE UintBytes(_)
UintBytes(n) == IF n = 0 THEN <<>> ELSE UintBytes(n \div 256) \o <<n % 256>>

\* rlp.EncodeToBytes of a byte string
RlpEncodeString(b) ==
    IF Len(b) = 1 /\ b[1] < 128 THEN b
    ELSE IF Len(b) <= 55 THEN <<128 + Len(b)>> \o b
    ELSE <<183 + Len(UintBytes(Len(b)))>> \o UintBytes(Len(b)) \o b

\* rlp encoding of an unsigned integer
RlpEncodeUint(n) ==
    IF n = 0 THEN <<128>>
    ELSE IF n < 128 THEN <<n>>
    ELSE RlpEncodeString(UintBytes(n))

\* rlp list header around an encoded payload
RlpEncodeList(payload) ==
    IF Len(payload) <= 55 THEN <<192 + Len(payload)>> \o payload
    ELSE <<247 + Len(UintBytes(Len(payload)))>> \o UintBytes(Len(payload)) \o payload

RlpErr == [err |-> TRUE, kind |-> "none", ts |-> 0, cs |-> 0]

\* rlp readSize: a big-endian length of slen bytes, canonical
RlpReadSize(b, slen) ==
    IF Len(b) < slen THEN -1
    ELSE IF b[1] = 0 THEN -1
    ELSE LET size == BigEndian(SubSeq(b, 1, slen))
         IN  IF size < 56 THEN -1 ELSE size

\* rlp readKind, the header: kind, tag size and content size by the first byte
RlpHeader(b) ==
    IF b[1] < 128 THEN [err |-> FALSE, kind |-> "byte", ts |-> 0, cs |-> 1]
    ELSE IF b[1] < 184 THEN
        IF b[1] - 128 = 1 /\ Len(b) > 1 /\ b[2] < 128 THEN RlpErr
        ELSE [err |-> FALSE, kind |-> "string", ts |-> 1, cs |-> b[1] - 128]
    ELSE IF b[1] < 192 THEN
        IF RlpReadSize(Tail(b), b[1] - 183) < 0 THEN RlpErr
        ELSE [err |-> FALSE, kind |-> "string", ts |-> b[1] - 183 + 1,
              cs |-> RlpReadSize(Tail(b), b[1] - 183)]
    ELSE IF b[1] < 248 THEN
        [err |-> FALSE, kind |-> "list", ts |-> 1, cs |-> b[1] - 192]
    ELSE
        IF RlpReadSize(Tail(b), b[1] - 247) < 0 THEN RlpErr
        ELSE [err |-> FALSE, kind |-> "list", ts |-> b[1] - 247 + 1,
              cs |-> RlpReadSize(Tail(b), b[1] - 247)]

\* rlp readKind, the end: the content must fit in the input
RlpFits(b, hdr) ==
    IF hdr.err THEN RlpErr
    ELSE IF hdr.cs > Len(b) - hdr.ts THEN RlpErr
    ELSE hdr

\* rlp readKind: kind, tag size and content size of the first value of b
RlpReadKind(b) ==
    IF Len(b) = 0 THEN RlpErr ELSE RlpFits(b, RlpHeader(b))

\* rlp.Split with the header h read
RlpSplitAt(b, h) ==
    IF h.err THEN [err |-> TRUE, kind |-> "none", content |-> <<>>, rest |-> <<>>]
    ELSE [err |-> FALSE, kind |-> h.kind,
          content |-> SubSeq(b, h.ts + 1, h.ts + h.cs),
          rest |-> SubSeq(b, h.ts + h.cs + 1, Len(b))]

\* rlp.Split: the content of the first value and what follows it
RlpSplit(b) == RlpSplitAt(b, RlpReadKind(b))

\* width in bytes of types.StateEpoch (an unsigned 16-bit integer)
EpochBytes == 2

\* rlp decoding of an unsigned integer field of at most EpochBytes bytes
RlpDecodeUint(kind, content) ==
    IF kind = "list" THEN [err |-> TRUE, n |-> 0]
    ELSE IF kind = "byte" THEN
        IF content[1] = 0 THEN [err |-> TRUE, n |-> 0] ELSE [err |-> FALSE, n |-> content[1]]
    ELSE IF Len(content) > EpochBytes THEN [err |-> TRUE, n |-> 0]
    ELSE IF Len(content) > 0 /\ content[1] = 0 THEN [err |-> TRUE, n |-> 0]
    ELSE [err |-> FALSE, n |-> BigEndian(content)]

\* rlp decoding of a [32]byte array field
RlpDecodeHash(kind, content) ==
    IF kind # "string" THEN [err |-> TRUE, h |-> <<>>]
    ELSE IF Len(content) # HashLength THEN [err |-> TRUE, h |-> <<>>]
    ELSE [err |-> FALSE, h |-> content]

RlpBadStruct == [err |-> TRUE, epoch |-> 0, h |-> <<>>]

\* the struct decoded: the fields e and h, f2 the split of the second field
RlpStructOf(e, f2, h) ==
    IF h.err \/ f2.rest # <<>> THEN RlpBadStruct
    ELSE [err |-> FALSE, epoch |-> e.n, h |-> h.h]

\* the second field of the struct, a common.Hash
RlpDecodeHashField(e, f2) ==
    IF e.err \/ f2.err THEN RlpBadStruct
    ELSE RlpStructOf(e, f2, RlpDecodeHash(f2.kind, f2.content))

\* the first field of the struct, a types.StateEpoch; f1 is its split
RlpDecodeEpochField(f1) ==
    IF f1.err THEN RlpBadStruct
    ELSE RlpDecodeHashField(RlpDecodeUint(f1.kind, f1.content), RlpSplit(f1.rest))

\* the list that holds the fields; top is its split
RlpDecodeList(top) ==
    IF top.err \/ top.kind # "list" THEN RlpBadStruct
    ELSE IF top.rest # <<>> THEN RlpBadStruct
    ELSE RlpDecodeEpochField(RlpSplit(top.content))

\* rlp.DecodeBytes into a struct {Epoch types.StateEpoch; <Val|Hash> common.Hash}
RlpDecodeEpochHash(b) == RlpDecodeList(RlpSplit(b))

----------------------------------------------------------------------------
(* SnapValue and its codec *)

RawValueType == 0
ValueWithEpochType == 1
ShrinkNodeWithEpochType == 2

\* A SnapValue: val is the raw bytes of a RawValue, the Val of a
\* ValueWithEpoch, the Hash of a ShrinkNodeWithEpoch.
NewRawValue(val) == [type |-> RawValueType, epoch |-> 0, val |-> val]
NewValueWithEpoch(epoch, val) == [type |-> ValueWithEpochType, epoch |-> epoch, val |-> val]
NewShrinkNodeWithEpoch(epoch, hash) == [type |-> ShrinkNodeWithEpochType, epoch |-> epoch, val |-> hash]

GetType(sv) == sv.type
GetEpoch(sv) == IF sv.type = RawValueType THEN 0 ELSE sv.epoch
GetVal(sv) ==
    IF sv.type = RawValueType THEN BytesToHash(sv.val)
    ELSE IF sv.type = ValueWithEpochType THEN sv.val
    ELSE Zeroes(HashLength)

\* outcomes of a decode: a value, an error, or a run-time panic
DecOk(sv) == [st |-> "ok", sv |-> sv]
DecErr(e) == [st |-> "err", sv |-> e]
DecPanic  == [st |-> "panic", sv |-> "index out of range"]

ErrSnapValueNotSupport == "the snapshot type not support now"
ErrRlp == "rlp"

\* encodeValTyped without the type byte in front of the payload
encodeValTypedNoTag(sv) ==
    RlpEncodeList(RlpEncodeUint(sv.epoch) \o RlpEncodeString(sv.val))

encodeValTyped(sv) ==
    <<GetType(sv)>> \o RlpEncodeList(RlpEncodeUint(sv.epoch) \o RlpEncodeString(sv.val))

EncodeValueToRLPBytes(sv) ==
    IF sv.type = RawValueType THEN RlpEncodeString(sv.val)
    ELSE encodeValTyped(sv)

\* the SnapValue of type t decoded from the payload d
decodedAs(t, d) ==
    IF d.err THEN DecErr(ErrRlp)
    ELSE IF t = ValueWithEpochType THEN DecOk(NewValueWithEpoch(d.epoch, d.h))
    ELSE DecOk(NewShrinkNodeWithEpoch(d.epoch, d.h))

decodeValTyped(b) ==
    IF Len(b) = 0 THEN DecPanic
    ELSE IF b[1] = ValueWithEpochType
    THEN decodedAs(ValueWithEpochType, RlpDecodeEpochHash(Tail(b)))
    ELSE IF b[1] = ShrinkNodeWithEpochType
    THEN decodedAs(ShrinkNodeWithEpochType, RlpDecodeEpochHash(Tail(b)))
    ELSE DecErr(ErrSnapValueNotSupport)

\* the RawValue of a split rlp string
rawOf(sp) == IF sp.err THEN DecErr(ErrRlp) ELSE DecOk(NewRawValue(sp.content))

\* DecodeValueFromRLPBytes with the raw branch taken from 0x7F on
DecodeValueFromRLPBytesFrom7F(b) ==
    IF Len(b) > 0 /\ b[1] >= 127 THEN rawOf(RlpSplit(b)) ELSE decodeValTyped(b)

DecodeValueFromRLPBytes(b) ==
    IF Len(b) > 0 /\ b[1] > 127 THEN rawOf(RlpSplit(b)) ELSE decodeValTyped(b)

\* -1 stands for the panic of b[0] on an empty slice
GetValueTypeFromRLPBytes(b) ==
    IF Len(b) > 0 /\ b[1] > 127 THEN RawValueType
    ELSE IF Len(b) = 0 THEN -1
    ELSE b[1]

----------------------------------------------------------------------------
(* Codec calls: a caller encodes a SnapValue and decodes the bytes again,  *)
(* or decodes bytes read from the store.                                   *)

MaxRawLen == 2
MaxShrinkEpoch == 2
MaxShrinks == 2

SampleBytes == {0, 1, 2, 127, 128, 255}

SampleEpochs == {0, 1, 127, 128, 256, 65535}

RECURSIVE SeqsUpTo(_, _)
SeqsUpTo(S, n) ==
    IF n = 0 THEN {<<>>}
    ELSE LET shorter == SeqsUpTo(S, n - 1)
         IN  shorter \cup {<<x>> \o u : x \in S, u \in {t \in shorter : Len(t) = n - 1}}

\* common.Hash samples: first and last byte vary
SampleHashes ==
    {[i \in 1..HashLength |-> IF i = 1 THEN a ELSE IF i = HashLength THEN z ELSE 0] :
        a \in {0, 1, 128}, z \in {0, 2, 255}}

RawInputs == {NewRawValue(b) : b \in SeqsUpTo(SampleBytes, MaxRawLen) \cup SampleHashes}

TaggedInputs ==
    {NewValueWithEpoch(e, h) : e \in SampleEpochs, h \in SampleHashes}
    \cup {NewShrinkNodeWithEpoch(e, h) : e \in SampleEpochs, h \in SampleHashes}

SnapInputs == RawInputs \cup TaggedInputs

\* byte strings a store can hand to the decoder: short strings, encodings,
\* encodings with another first byte, truncated and extended encodings
ByteInputs ==
    LET encs == {EncodeValueToRLPBytes(v) : v \in SnapInputs}
    IN  SeqsUpTo(SampleBytes, MaxRawLen)
        \cup encs
        \cup {<<t>> \o Tail(e) : t \in {0, 1, 2, 3, 127}, e \in {x \in encs : Len(x) > 0}}
        \cup {SubSeq(e, 1, Len(e) - 1) : e \in {x \in encs : Len(x) > 0}}
        \cup {e \o <<0>> : e \in encs}

\* no SnapValue: the call started from stored bytes
NoValue == [type |-> -1, epoch |-> 0, val |-> <<>>]

NoResult == [st |-> "none", sv |-> Nil]

CodecIdle == [pc |-> "idle", in |-> NoValue, enc |-> <<>>, dec |-> NoResult, ty |-> -2]

\* EncodeValueToRLPBytes(in)
CodecEncode ==
    /\ cdc.pc = "value"
    /\ cdc' = [cdc EXCEPT !.pc = "bytes", !.enc = EncodeValueToRLPBytes(cdc.in)]
    /\ UNCHANGED <<s, lastOp, txBase, cp, kv>>

\* GetValueTypeFromRLPBytes(enc)
CodecGetType ==
    /\ cdc.pc = "bytes"
    /\ cdc' = [cdc EXCEPT !.pc = "typed", !.ty = GetValueTypeFromRLPBytes(cdc.enc)]
    /\ UNCHANGED <<s, lastOp, txBase, cp, kv>>

\* DecodeValueFromRLPBytes(enc)
CodecDecode ==
    /\ cdc.pc \in {"bytes", "typed"}
    /\ cdc' = [cdc EXCEPT !.pc = "done", !.dec = DecodeValueFromRLPBytes(cdc.enc)]
    /\ UNCHANGED <<s, lastOp, txBase, cp, kv>>

----------------------------------------------------------------------------
(* snapshot: ShrinkExpiredSubTree over the key-value store *)

\* the store is modelled with hashes of HashBytes bytes out of PathBytes
HashBytes == 2
NumAccounts == 2
PathBytes == {0, 1}

Accounts == 1..NumAccounts
StoreHashes == [1..HashBytes -> PathBytes]
Paths == SeqsUpTo(PathBytes, HashBytes)

\* the storage-snapshot records: account hash and storage hash to bytes;
\* <<>> is no record
RecordKeys == Accounts \X StoreHashes
NoRecords == [key \in RecordKeys |-> <<>>]

\* common.BytesToHashLeft: the path at the left of a hash, zeroes after it
BytesToHashLeft(path) ==
    [i \in 1..HashBytes |-> IF i <= Len(path) THEN path[i] ELSE 0]

HasPrefix(h, path) == \A i \in 1..Len(path) : h[i] = path[i]

\* a batch is the sequence of its puts and deletes
BatchPut(batch, key, val) == Append(batch, [op |-> "put", key |-> key, val |-> val])
BatchDelete(batch, key) == Append(batch, [op |-> "delete", key |-> key, val |-> <<>>])

\* batch.Write: the operations are applied in the order they were added
RECURSIVE BatchWrite(_, _)
BatchWrite(db, batch) ==
    IF batch = <<>> THEN db
    ELSE BatchWrite([db EXCEPT ![Head(batch).key] = Head(batch).val], Tail(batch))

\* rawdb.StorageSnapshotSeeker: the keys of the records of the account whose
\* storage hash begins with the path
SeekerKeys(db, accountHash, path) ==
    {key \in RecordKeys : key[1] = accountHash /\ HasPrefix(key[2], path) /\ db[key] # <<>>}

\* the loop over the seeker: a delete is added to the batch for every key
RECURSIVE seekerLoop(_, _)
seekerLoop(batch, keys) ==
    IF keys = {} THEN batch
    ELSE LET key == CHOOSE x \in keys : TRUE
         IN  seekerLoop(BatchDelete(batch, key), keys \ {key})

\* what can fail in ShrinkExpiredSubTree: a batch.Delete, or batch.Write
ShrinkFailures == {"none", "delete", "write"}

\* ShrinkExpiredSubTree after the placeholder was put into the batch
shrunk(db, batch, keys, fail) ==
    IF fail = "delete" /\ keys # {} THEN [db |-> db, err |-> TRUE]
    ELSE IF fail = "write" THEN [db |-> db, err |-> TRUE]
    ELSE [db |-> BatchWrite(db, seekerLoop(batch, keys)), err |-> FALSE]

ShrinkExpiredSubTree(db, accountHash, path, epoch, nodeHash, fail) ==
    shrunk(db,
           BatchPut(<<>>, <<accountHash, BytesToHashLeft(path)>>,
                    EncodeValueToRLPBytes(NewShrinkNodeWithEpoch(epoch, nodeHash))),
           SeekerKeys(db, accountHash, path), fail)

\* the node hashes and epochs of the calls, and the flat record the store
\* can hold before them (placeholders come from the earlier calls of a run)
ShrinkEpochs == 1..MaxShrinkEpoch
ShrinkHashes == {WordHash(1)}
FlatRecord == EncodeValueToRLPBytes(NewValueWithEpoch(0, WordHash(1)))

----------------------------------------------------------------------------
(* The state object.  Bounds of the model. *)

NumKeys == 1
MaxVal == 1
MaxEpoch == 2
MaxBalance == 1
MaxNonce == 1
MaxJournal == 2
MaxAccessCount == 2
MaxCalls == 5

Keys == 1..NumKeys
Vals == 0..MaxVal

EmptyMap == [x \in {} |-> 0]

\* a Go map read: the zero value when the key is missing
Get(m, k) == IF k \in DOMAIN m THEN m[k] ELSE 0

Put(m, k, v) == [x \in DOMAIN m \cup {k} |-> IF x = k THEN v ELSE m[x]]

Remove(m, k) == [x \in DOMAIN m \ {k} |-> m[x]]

\* common.Hash of a storage value and back, through the bytes
TrimmedVal(v) == TrimLeftZeroes(WordHash(v))
SetBytes(b) == HashWord(BytesToHash(b))

----------------------------------------------------------------------------
(* Collaborators: the storage trie and the flat snapshot *)

\* a slot of a trie: no record, a record, or a record under an expired node
NoSlot == [st |-> "absent", val |-> 0]
LiveSlot(v) == [st |-> "live", val |-> v]
ExpiredSlot(v) == [st |-> "expired", val |-> v]

EmptyTrie == [k \in Keys |-> NoSlot]

\* a Trie handle; a nil handle has open = FALSE
NilTrie == [open |-> FALSE, c |-> EmptyTrie]
TrieOf(c) == [open |-> TRUE, c |-> c]

\* Database.CopyTrie
CopyTrie(tr) == tr

\* Database.OpenStorageTrie(root): the trie whose hash is root
OpenStorageTrie(root) == TrieOf(root)

\* Trie.Hash / the root of Trie.Commit: the root names the content
TrieHash(tr) == tr.c

\* Trie.GetStorage(key): value bytes, or an error ("expired", "io")
TrieGetStorage(tr, k, fail) ==
    IF fail THEN [err |-> "io", val |-> <<>>]
    ELSE IF tr.c[k].st = "expired" THEN [err |-> "expired", val |-> <<>>]
    ELSE IF tr.c[k].st = "live" THEN [err |-> "none", val |-> TrimmedVal(tr.c[k].val)]
    ELSE [err |-> "none", val |-> <<>>]

\* Trie.UpdateStorage(key, value): stores a record with the bytes it is given
TrieUpdateStorage(tr, k, b) == [tr EXCEPT !.c[k] = LiveSlot(SetBytes(b))]

\* Trie.DeleteStorage(key)
TrieDeleteStorage(tr, k) == [tr EXCEPT !.c[k] = NoSlot]

\* a write below an expired node is refused with an expired-node error
TrieWriteFails(tr, k, fail) == fail \/ tr.c[k].st = "expired"

\* Trie.ReviveTrie(key, prefix, proof): a valid proof makes an expired slot
\* readable again with the value it had
TrieReviveTrie(tr, k) == [tr EXCEPT !.c[k] = LiveSlot(tr.c[k].val)]

\* an entry of the flat snapshot: encoded bytes (none: empty), or expired
NoSnap == [exp |-> FALSE, enc |-> <<>>]

\* snap.Storage(accountHash, keyHash)
SnapStorage(w, k, fail) ==
    IF fail THEN [err |-> "io", enc |-> <<>>]
    ELSE IF w.db.snap[k].exp THEN [err |-> "expired", enc |-> <<>>]
    ELSE [err |-> "none", enc |-> w.db.snap[k].enc]

----------------------------------------------------------------------------
(* stateObject: the read path *)

\* collaborator calls that can fail during a read: the snapshot read, and
\* opening the trie or the trie read that follows it
ReadFailures == {sn \cup tr : sn \in {{}, {"snap"}}, tr \in {{}, {"open"}, {"get"}}}

\* s.db.setError: sticky
setError(w) == [w EXCEPT !.db.dbErr = TRUE]

\* the key queryFromReviveState looks up: string(khash[:])
ReviveLookupKey(k) == <<"keccak", k>>

\* the key ReviveStorageTrie stores under: proof.Key, the hex string of the raw key
ReviveStoreKey(k) == <<"hex", k>>

queryFromReviveState(reviveState, k) ==
    IF ReviveLookupKey(k) \in DOMAIN reviveState
    THEN [ok |-> TRUE, val |-> reviveState[ReviveLookupKey(k)]]
    ELSE [ok |-> FALSE, val |-> 0]

\* calls counts the slot reads made of the collaborators (snap.Storage and
\* Trie.GetStorage); opening the trie reads no slot
getTrie(w, fail) ==
    IF w.trie.open THEN [w |-> w, err |-> FALSE, calls |-> 0]
    ELSE IF fail THEN [w |-> w, err |-> TRUE, calls |-> 0]
    ELSE [w |-> [w EXCEPT !.trie = OpenStorageTrie(w.data.Root)], err |-> FALSE, calls |-> 0]

\* getPendingReviveTrie after getTrie returned g
copiedTrie(g) ==
    IF g.err THEN g
    ELSE [w |-> [g.w EXCEPT !.pendingReviveTrie = CopyTrie(g.w.trie)],
          err |-> FALSE, calls |-> g.calls]

getPendingReviveTrie(w, fail) ==
    IF w.pendingReviveTrie.open THEN [w |-> w, err |-> FALSE, calls |-> 0]
    ELSE copiedTrie(getTrie(w, fail))

needLoadFromTrie(w, enc, err) ==
    IF ~w.db.snapOn THEN TRUE
    ELSE IF ~w.db.expire THEN err
    ELSE err \/ Len(enc) = 0

\* the snapshot tier in expiry mode: d is the SnapValue decoded from r.enc
snapshotDecoded(w, k, r, d) ==
    IF d.st = "ok"
    THEN [w |-> [w EXCEPT !.originStorageEpoch = Put(@, k, GetEpoch(d.sv))],
          enc |-> r.enc, err |-> FALSE, value |-> SetBytes(GetVal(d.sv)), calls |-> 1]
    ELSE [w |-> w, enc |-> <<>>, err |-> TRUE, value |-> 0, calls |-> 1]

\* the snapshot tier without expiry: sp is the rlp.Split of r.enc
snapshotSplit(w, r, sp) ==
    [w |-> IF sp.err THEN setError(w) ELSE w,
     enc |-> r.enc, err |-> r.err # "none", value |-> SetBytes(sp.content), calls |-> 1]

\* the snapshot tier after snap.Storage returned r; an expired slot is no error
snapshotRead(w, k, r) ==
    IF w.db.expire THEN
        IF Len(r.enc) > 0 THEN snapshotDecoded(w, k, r, DecodeValueFromRLPBytes(r.enc))
        ELSE [w |-> w, enc |-> r.enc, err |-> r.err = "io", value |-> 0, calls |-> 1]
    ELSE
        IF Len(r.enc) > 0 THEN snapshotSplit(w, r, RlpSplit(r.enc))
        ELSE [w |-> w, enc |-> r.enc, err |-> r.err # "none", value |-> 0, calls |-> 1]

\* the snapshot tier of GetCommittedState: enc, err, value as they stand
\* when needLoadFromTrie is asked
snapshotTier(w, k, fail) ==
    IF ~w.db.snapOn THEN [w |-> w, enc |-> <<>>, err |-> FALSE, value |-> 0, calls |-> 0]
    ELSE snapshotRead(w, k, SnapStorage(w, k, fail))

\* the trie tier when a read error is not recorded in the database
trieReadUnflagged(w, r, calls) ==
    IF r.err # "none" /\ ~(w.db.expire /\ r.err = "expired")
    THEN [w |-> w, ok |-> FALSE, value |-> 0, calls |-> calls]
    ELSE [w |-> w, ok |-> TRUE, value |-> SetBytes(r.val), calls |-> calls]

\* the trie tier after Trie.GetStorage returned r; in expiry mode an expired
\* slot is no error
trieRead(w, r, calls) ==
    IF r.err # "none" /\ ~(w.db.expire /\ r.err = "expired")
    THEN [w |-> setError(w), ok |-> FALSE, value |-> 0, calls |-> calls]
    ELSE [w |-> w, ok |-> TRUE, value |-> SetBytes(r.val), calls |-> calls]

\* the trie tier after getTrie returned g
trieLoaded(g, k, f) ==
    IF g.err THEN [w |-> setError(g.w), ok |-> FALSE, value |-> 0, calls |-> g.calls]
    ELSE trieRead(g.w, TrieGetStorage(g.w.trie, k, "get" \in f), g.calls + 1)

\* the trie tier of GetCommittedState
trieTier(w, k, f) == trieLoaded(getTrie(w, "open" \in f), k, f)

\* the end of GetCommittedState when a zero value is not cached
cacheFromTrieSkipsZero(t, k, calls) ==
    IF ~t.ok \/ t.value = 0 THEN [w |-> t.w, ret |-> 0, calls |-> calls + t.calls]
    ELSE [w |-> [t.w EXCEPT !.originStorage = Put(@, k, t.value)],
          ret |-> t.value, calls |-> calls + t.calls]

\* the end of GetCommittedState after the trie tier returned t
cacheFromTrie(t, k, calls) ==
    IF ~t.ok THEN [w |-> t.w, ret |-> 0, calls |-> calls + t.calls]
    ELSE [w |-> [t.w EXCEPT !.originStorage = Put(@, k, t.value)],
          ret |-> t.value, calls |-> calls + t.calls]

\* GetCommittedState after the snapshot tier returned sn
loadCommitted(sn, k, f) ==
    IF needLoadFromTrie(sn.w, sn.enc, sn.err)
    THEN cacheFromTrie(trieTier(sn.w, k, f), k, sn.calls)
    ELSE [w |-> [sn.w EXCEPT !.originStorage = Put(@, k, sn.value)],
          ret |-> sn.value, calls |-> sn.calls]

\* GetCommittedState without the check of the destruct mark
GetCommittedStateNoDestruct(w, k, f) ==
    IF k \in DOMAIN w.pendingStorage
    THEN [w |-> w, ret |-> w.pendingStorage[k], calls |-> 0]
    ELSE IF w.db.expire /\ queryFromReviveState(w.pendingReviveState, k).ok
    THEN [w |-> w, ret |-> queryFromReviveState(w.pendingReviveState, k).val, calls |-> 0]
    ELSE IF k \in DOMAIN w.originStorage
    THEN [w |-> w, ret |-> w.originStorage[k], calls |-> 0]
    ELSE loadCommitted(snapshotTier(w, k, "snap" \in f), k, f)

\* GetCommittedState(key): the new object, the value returned, the number of
\* slot reads made of the snapshot and the trie
GetCommittedState(w, k, f) ==
    IF k \in DOMAIN w.pendingStorage
    THEN [w |-> w, ret |-> w.pendingStorage[k], calls |-> 0]
    ELSE IF w.db.expire /\ queryFromReviveState(w.pendingReviveState, k).ok
    THEN [w |-> w, ret |-> queryFromReviveState(w.pendingReviveState, k).val, calls |-> 0]
    ELSE IF k \in DOMAIN w.originStorage
    THEN [w |-> w, ret |-> w.originStorage[k], calls |-> 0]
    ELSE IF w.db.stateObjectsDestruct
    THEN [w |-> w, ret |-> 0, calls |-> 0]
    ELSE loadCommitted(snapshotTier(w, k, "snap" \in f), k, f)

\* accessState with the comparison of the epochs turned round
accessStateReversed(w, k) ==
    IF ~w.db.expire THEN w
    ELSE IF w.db.epoch < Get(w.originStorageEpoch, k)
    THEN [w EXCEPT !.pendingAccessedState = Put(@, k, Get(@, k) + 1)]
    ELSE w

\* GetCommittedState goes to the snapshot and the trie for the key
ReachesStore(w, k) ==
    /\ k \notin DOMAIN w.pendingStorage
    /\ ~(w.db.expire /\ queryFromReviveState(w.pendingReviveState, k).ok)
    /\ k \notin DOMAIN w.originStorage
    /\ ~w.db.stateObjectsDestruct

\* the collaborator calls of the trie tier that return an error under f
TrieErrors(w, f) ==
    IF ~w.trie.open /\ "open" \in f THEN {"open"} ELSE f \cap {"get"}

\* the trie tier is entered after the snapshot tier returned sn
StoreErrors(w, sn, f) ==
    (IF w.db.snapOn THEN f \cap {"snap"} ELSE {})
    \cup (IF needLoadFromTrie(sn.w, sn.enc, sn.err) THEN TrieErrors(w, f) ELSE {})

\* the collaborator calls of GetCommittedState(k) that return an I/O error
\* when the calls named in f fail
ReadErrors(w, k, f) ==
    IF ReachesStore(w, k) THEN StoreErrors(w, snapshotTier(w, k, "snap" \in f), f) ELSE {}

\* the same for GetState(k)
GetStateErrors(w, k, f) == IF k \in DOMAIN w.dirtyStorage THEN {} ELSE ReadErrors(w, k, f)

accessState(w, k) ==
    IF ~w.db.expire THEN w
    ELSE IF w.db.epoch > Get(w.originStorageEpoch, k)
    THEN [w EXCEPT !.pendingAccessedState = Put(@, k, Get(@, k) + 1)]
    ELSE w

\* the end of GetState after GetCommittedState returned r
accessed(r, k) == IF r.ret # 0 THEN [r EXCEPT !.w = accessState(r.w, k)] ELSE r

GetState(w, k, f) ==
    IF k \in DOMAIN w.dirtyStorage
    THEN [w |-> w, ret |-> w.dirtyStorage[k], calls |-> 0]
    ELSE accessed(GetCommittedState(w, k, f), k)

----------------------------------------------------------------------------
(* stateObject: the write path and the journal *)

JournalEntry(kind, key, prev) == [kind |-> kind, key |-> key, prev |-> prev]

journalAppend(w, e) == [w EXCEPT !.db.journal = Append(@, e)]

setState(w, k, v) == [w EXCEPT !.dirtyStorage = Put(@, k, v)]

\* SetState that records the new value in the journal
SetStateJournalsNew(w, k, v, f) ==
    LET r == GetState(w, k, f)
    IN  IF r.ret = v THEN r.w
        ELSE setState(journalAppend(r.w, JournalEntry("storage", k, v)), k, v)

\* SetState without the comparison with the previous value
writtenAlways(r, k, v) ==
    setState(journalAppend(r.w, JournalEntry("storage", k, r.ret)), k, v)

\* SetState after GetState returned r
written(r, k, v) ==
    IF r.ret = v THEN r.w
    ELSE setState(journalAppend(r.w, JournalEntry("storage", k, r.ret)), k, v)

SetState(w, k, v, f) == written(GetState(w, k, f), k, v)

setBalance(w, amount) == [w EXCEPT !.data.Balance = amount]

SetBalance(w, amount) ==
    setBalance(journalAppend(w, JournalEntry("balance", 0, w.data.Balance)), amount)

EmptyCodeHash == 0
CodeHashes == {EmptyCodeHash, 1}

empty(w) == w.data.Nonce = 0 /\ w.data.Balance = 0 /\ w.data.CodeHash = EmptyCodeHash

\* touch(): the account is not the ripemd precompile
touch(w) == journalAppend(w, JournalEntry("touch", 0, 0))

AddBalanceTouchesAlways(w, amount) ==
    IF amount = 0 THEN touch(w)
    ELSE SetBalance(w, w.data.Balance + amount)

\* AddBalance(amount)
AddBalance(w, amount) ==
    IF amount = 0 THEN (IF empty(w) THEN touch(w) ELSE w)
    ELSE SetBalance(w, w.data.Balance + amount)

\* SubBalance(amount)
SubBalance(w, amount) ==
    IF amount = 0 THEN w ELSE SetBalance(w, w.data.Balance - amount)

\* no code loaded
NoCode == -1

\* Code(): the code is loaded when the object does not hold it; code bytes
\* are named by their hash
Code(w) ==
    IF w.code # NoCode THEN w
    ELSE IF w.data.CodeHash = EmptyCodeHash THEN w
    ELSE [w EXCEPT !.code = w.data.CodeHash]

setCode(w, codeHash) ==
    [w EXCEPT !.code = codeHash, !.data.CodeHash = codeHash, !.dirtyCode = TRUE]

\* SetCode after Code() loaded the previous code
codeSet(w, codeHash) ==
    setCode(journalAppend(w, JournalEntry("code", 0, w.data.CodeHash)), codeHash)

SetCode(w, codeHash) == codeSet(Code(w), codeHash)

setNonce(w, nonce) == [w EXCEPT !.data.Nonce = nonce]

SetNonce(w, nonce) ==
    setNonce(journalAppend(w, JournalEntry("nonce", 0, w.data.Nonce)), nonce)

\* journal revert: undo one entry
undo(w, e) ==
    IF e.kind = "storage" THEN setState(w, e.key, e.prev)
    ELSE IF e.kind = "balance" THEN setBalance(w, e.prev)
    ELSE IF e.kind = "nonce" THEN setNonce(w, e.prev)
    ELSE IF e.kind = "code" THEN setCode(w, e.prev)
    ELSE w

\* journal revert to the start of the transaction: last entry first
RECURSIVE revert(_, _)
revert(w, j) ==
    IF j = <<>> THEN [w EXCEPT !.db.journal = <<>>]
    ELSE revert(undo(w, j[Len(j)]), SubSeq(j, 1, Len(j) - 1))

\* finalise that keeps the pending value of a slot already pending
finaliseKeepsPending(w) ==
    [w EXCEPT !.pendingStorage =
                  [k \in DOMAIN w.pendingStorage \cup DOMAIN w.dirtyStorage |->
                      IF k \in DOMAIN w.pendingStorage THEN w.pendingStorage[k]
                      ELSE w.dirtyStorage[k]],
              !.dirtyStorage = EmptyMap]

\* finalise(prefetch): no prefetcher is configured
finalise(w) ==
    [w EXCEPT !.pendingStorage =
                  [k \in DOMAIN w.pendingStorage \cup DOMAIN w.dirtyStorage |->
                      IF k \in DOMAIN w.dirtyStorage THEN w.dirtyStorage[k]
                      ELSE w.pendingStorage[k]],
              !.dirtyStorage = EmptyMap]

----------------------------------------------------------------------------
(* stateObject: the commit pipeline *)

needUpdateTrie(w) ==
    IF ~w.db.expire THEN DOMAIN w.pendingStorage # {}
    ELSE DOMAIN w.pendingStorage # {} \/ DOMAIN w.pendingReviveState # {}
         \/ DOMAIN w.pendingAccessedState # {}

\* a trie write the last operation made
TrieCall(op, k, b) == [op |-> op, key |-> k, val |-> b]

\* the bytes kept for the snapshot of a written slot
snapshotValOf(w, trimmedVal) ==
    IF w.db.expire
    THEN EncodeValueToRLPBytes(NewValueWithEpoch(w.db.epoch, BytesToHash(trimmedVal)))
    ELSE RlpEncodeString(trimmedVal)

\* the tables of mutated slots and of their original values; nil is <<>>
cacheMutated(w, k, snapshotVal) == [w EXCEPT !.db.storages = Put(@, k, snapshotVal)]

cacheOrigin(w, k, prev) ==
    IF k \in DOMAIN w.db.storagesOrigin THEN w
    ELSE [w EXCEPT !.db.storagesOrigin =
              Put(@, k, IF prev = 0 THEN <<>> ELSE RlpEncodeString(TrimmedVal(prev)))]

\* one round of the loop over pendingStorage; L is the loop state
\* [w, tr, acc, err, calls] and fail says the trie write of this round fails
pendingRound(L, k, fail) ==
    LET w     == L.w
        value == w.pendingStorage[k]
    IN  IF value = Get(w.originStorage, k) THEN L
        ELSE LET prev == Get(w.originStorage, k)
                 w1   == [w EXCEPT !.originStorage = Put(@, k, value)]
                 acc1 == IF w.db.expire THEN L.acc \ {k} ELSE L.acc
                 trimmedVal == TrimmedVal(value)
             IN  IF TrieWriteFails(L.tr, k, fail)
                 THEN [L EXCEPT !.w = setError(w1), !.acc = acc1, !.err = TRUE]
                 ELSE IF value = 0
                 THEN [L EXCEPT !.w = cacheOrigin(cacheMutated(w1, k, <<>>), k, prev),
                                !.acc = acc1,
                                !.tr = TrieDeleteStorage(L.tr, k),
                                !.calls = @ \cup {TrieCall("delete", k, <<>>)}]
                 ELSE [L EXCEPT !.w = cacheOrigin(
                                    cacheMutated(w1, k, snapshotValOf(w1, trimmedVal)), k, prev),
                                !.acc = acc1,
                                !.tr = TrieUpdateStorage(L.tr, k, trimmedVal),
                                !.calls = @ \cup {TrieCall("update", k, trimmedVal)}]

\* one round of the loop over the accessed slots, after GetState returned r
accessWrite(L, k, fail, r) ==
    LET trimmedVal  == TrimmedVal(r.ret)
        snapshotVal == EncodeValueToRLPBytes(
                           NewValueWithEpoch(L.w.db.epoch, BytesToHash(trimmedVal)))
    IN  IF TrieWriteFails(L.tr, k, fail) THEN [L EXCEPT !.w = setError(r.w), !.err = TRUE]
        ELSE [L EXCEPT !.w = cacheMutated(r.w, k, snapshotVal),
                       !.tr = TrieUpdateStorage(L.tr, k, trimmedVal),
                       !.calls = @ \cup {TrieCall("update", k, trimmedVal)}]

\* one round of the loop over the accessed slots
accessRound(L, k, fail) == accessWrite(L, k, fail, GetState(L.w, k, {}))

RECURSIVE pendingRounds(_, _)
pendingRounds(L, ks) ==
    IF ks = {} \/ L.err THEN L
    ELSE LET k == CHOOSE x \in ks : TRUE
         IN  pendingRounds(pendingRound(L, k, FALSE), ks \ {k})

RECURSIVE accessRounds(_, _)
accessRounds(L, ks) ==
    IF ks = {} \/ L.err THEN L
    ELSE LET k == CHOOSE x \in ks : TRUE
         IN  accessRounds(accessRound(L, k, FALSE), ks \ {k})

\* what can fail in updateTrie: opening the trie, or the trie write of one
\* round; the map iteration order decides which rounds ran before it
NoUpdateFailure == [open |-> FALSE, phase |-> "none", at |-> 0, before |-> {}]

UpdateFailures ==
    {NoUpdateFailure, [NoUpdateFailure EXCEPT !.open = TRUE]}
    \cup {fu \in [open : {FALSE}, phase : {"pending", "access"}, at : Keys,
                   before : SUBSET Keys] : fu.at \notin fu.before}

\* the loop over pendingStorage, under the failure fu
pendingLoop(L, fu) ==
    LET ks      == DOMAIN L.w.pendingStorage
        changed == {k \in ks : L.w.pendingStorage[k] # Get(L.w.originStorage, k)}
    IN  IF fu.phase = "pending" /\ fu.at \in changed
        THEN pendingRound(pendingRounds(L, (ks \cap fu.before) \ {fu.at}), fu.at, TRUE)
        ELSE pendingRounds(L, ks)

\* the loop over accessStorage, under the failure fu
accessLoop(L, fu) ==
    IF ~L.w.db.expire THEN L
    ELSE IF fu.phase = "access" /\ fu.at \in L.acc
    THEN accessRound(accessRounds(L, (L.acc \cap fu.before) \ {fu.at}), fu.at, TRUE)
    ELSE accessRounds(L, L.acc)

\* the trie handle updateTrie works on is an alias of a field of the object
aliasTrie(w, tr) ==
    IF w.db.expire THEN [w EXCEPT !.pendingReviveTrie = tr] ELSE [w EXCEPT !.trie = tr]

\* the loops of updateTrie begin on the object w
loopStart(w) ==
    [w |-> w,
     tr |-> IF w.db.expire THEN w.pendingReviveTrie ELSE w.trie,
     acc |-> IF w.db.expire THEN DOMAIN w.pendingAccessedState ELSE {},
     err |-> FALSE, calls |-> {}]

\* the loop over the accessed slots follows the loop over pendingStorage
accessAfter(L, fu) == IF L.err THEN L ELSE accessLoop(L, fu)

updateResetKeepsAccessed(L) ==
    IF L.err
    THEN [w |-> aliasTrie(L.w, L.tr), tr |-> NilTrie, err |-> TRUE, calls |-> L.calls]
    ELSE [w |-> IF L.w.db.expire
                THEN [L.w EXCEPT !.pendingStorage = EmptyMap,
                                 !.pendingReviveState = EmptyMap,
                                 !.originStorageEpoch = EmptyMap,
                                 !.pendingReviveTrie = NilTrie,
                                 !.trie = CopyTrie(L.tr)]
                ELSE [L.w EXCEPT !.pendingStorage = EmptyMap, !.trie = L.tr],
          tr |-> L.tr, err |-> FALSE, calls |-> L.calls]

\* the end of updateTrie, after the loops: the resets
updateReset(L) ==
    IF L.err
    THEN [w |-> aliasTrie(L.w, L.tr), tr |-> NilTrie, err |-> TRUE, calls |-> L.calls]
    ELSE [w |-> IF L.w.db.expire
                THEN [L.w EXCEPT !.pendingStorage = EmptyMap,
                                 !.pendingReviveState = EmptyMap,
                                 !.pendingAccessedState = EmptyMap,
                                 !.originStorageEpoch = EmptyMap,
                                 !.pendingReviveTrie = NilTrie,
                                 !.trie = CopyTrie(L.tr)]
                ELSE [L.w EXCEPT !.pendingStorage = EmptyMap, !.trie = L.tr],
          tr |-> L.tr, err |-> FALSE, calls |-> L.calls]

\* updateTrie after the trie was opened: g is what the getter returned
updateOpened(g, fu) ==
    IF g.err THEN [w |-> setError(g.w), tr |-> NilTrie, err |-> TRUE, calls |-> {}]
    ELSE updateReset(accessAfter(pendingLoop(loopStart(g.w), fu), fu))

\* updateTrie after finalise
updateFinalised(w, fu) ==
    IF ~needUpdateTrie(w) THEN [w |-> w, tr |-> w.trie, err |-> FALSE, calls |-> {}]
    ELSE IF w.db.expire THEN updateOpened(getPendingReviveTrie(w, fu.open), fu)
    ELSE updateOpened(getTrie(w, fu.open), fu)

\* updateTrie(): the new object, the Trie returned (nil: not open), the error
\* and the trie writes made
updateTrie(w0, fu) == updateFinalised(finalise(w0), fu)

\* updateRoot after updateTrie returned r
rootUpdatedAdvancesOrigin(r) ==
    IF r.err \/ ~r.tr.open THEN r
    ELSE [r EXCEPT !.w = [r.w EXCEPT !.data.Root = TrieHash(r.tr),
                                     !.origin = [r.w.data EXCEPT !.Root = TrieHash(r.tr)]]]

rootUpdated(r) ==
    IF r.err \/ ~r.tr.open THEN r
    ELSE [r EXCEPT !.w = [r.w EXCEPT !.data.Root = TrieHash(r.tr)]]

updateRoot(w, fu) == rootUpdated(updateTrie(w, fu))

committedStoresRootFirst(r, failCommit) ==
    IF r.err THEN [w |-> r.w, nodes |-> FALSE, err |-> TRUE, calls |-> r.calls]
    ELSE IF ~r.tr.open
    THEN [w |-> [r.w EXCEPT !.origin = r.w.data], nodes |-> FALSE, err |-> FALSE,
          calls |-> r.calls]
    ELSE IF failCommit
    THEN [w |-> [r.w EXCEPT !.data.Root = TrieHash(r.tr)], nodes |-> FALSE, err |-> TRUE,
          calls |-> r.calls]
    ELSE [w |-> [r.w EXCEPT !.data.Root = TrieHash(r.tr),
                            !.origin = [r.w.data EXCEPT !.Root = TrieHash(r.tr)]],
          nodes |-> TRUE, err |-> FALSE, calls |-> r.calls]

\* commit after updateTrie returned r
committed(r, failCommit) ==
    IF r.err THEN [w |-> r.w, nodes |-> FALSE, err |-> TRUE, calls |-> r.calls]
    ELSE IF ~r.tr.open
    THEN [w |-> [r.w EXCEPT !.origin = r.w.data], nodes |-> FALSE, err |-> FALSE,
          calls |-> r.calls]
    ELSE IF failCommit
    THEN [w |-> r.w, nodes |-> FALSE, err |-> TRUE, calls |-> r.calls]
    ELSE [w |-> [r.w EXCEPT !.data.Root = TrieHash(r.tr),
                            !.origin = [r.w.data EXCEPT !.Root = TrieHash(r.tr)]],
          nodes |-> TRUE, err |-> FALSE, calls |-> r.calls]

\* commit(): nodes says a node set is returned
commit(w, fu, failCommit) == committed(updateTrie(w, fu), failCommit)

----------------------------------------------------------------------------
(* stateObject: revival *)

\* the collaborator call that fails in a revival: the first failure ends it
ReviveFailures == {{}, {"open"}, {"proof"}, {"get"}}

\* ReviveStorageTrie after getPendingReviveTrie returned g
revived(g, k, f) ==
    IF g.err THEN [w |-> g.w, err |-> TRUE, val |-> 0]
    ELSE LET dr == g.w.pendingReviveTrie
         IN  IF "proof" \in f \/ dr.c[k].st # "expired"
             THEN [w |-> g.w, err |-> TRUE, val |-> 0]
             ELSE LET dr1 == TrieReviveTrie(dr, k)
                      w1  == [g.w EXCEPT !.pendingReviveTrie = dr1]
                      r   == TrieGetStorage(dr1, k, "get" \in f)
                  IN  IF r.err # "none" THEN [w |-> w1, err |-> TRUE, val |-> 0]
                      ELSE [w |-> [w1 EXCEPT !.pendingReviveState =
                                       Put(@, ReviveStoreKey(k), SetBytes(r.val))],
                            err |-> FALSE, val |-> SetBytes(r.val)]

ReviveStorageTrie(w, k, f) == revived(getPendingReviveTrie(w, "open" \in f), k, f)

\* the collaborator call of ReviveStorageTrie(k) that returns an error when
\* the calls named in f fail; a proof for a slot that is not expired is refused
ReviveErrors(w, k, f) ==
    IF ~w.pendingReviveTrie.open /\ ~w.trie.open /\ "open" \in f THEN {"open"}
    ELSE IF "proof" \in f \/ getPendingReviveTrie(w, FALSE).w.pendingReviveTrie.c[k].st # "expired"
    THEN {"proof"}
    ELSE f \cap {"get"}

----------------------------------------------------------------------------
(* The account record, newObject and the initial states *)

Account(nonce, balance, codeHash, root) ==
    [Nonce |-> nonce, Balance |-> balance, CodeHash |-> codeHash, Root |-> root]

\* types.NewEmptyStateAccount
NewEmptyStateAccount == Account(0, 0, EmptyCodeHash, EmptyTrie)

\* a nil *types.StateAccount
NoAccount == Account(-1, 0, EmptyCodeHash, EmptyTrie)

newObject(db, acct) ==
    [db |-> db,
     origin |-> acct,
     data |-> IF acct = NoAccount THEN NewEmptyStateAccount ELSE acct,
     trie |-> NilTrie,
     originStorage |-> EmptyMap,
     pendingStorage |-> EmptyMap,
     dirtyStorage |-> EmptyMap,
     pendingReviveTrie |-> NilTrie,
     pendingReviveState |-> EmptyMap,
     pendingAccessedState |-> EmptyMap,
     originStorageEpoch |-> EmptyMap,
     code |-> NoCode,
     dirtyCode |-> FALSE]

\* nothing stored for a slot
NoStored == [st |-> "absent", val |-> 0, stamp |-> 0]

\* what the store can hold for a slot when the block begins
StoredSlots(expire, epoch) ==
    {NoStored}
    \cup {[st |-> "live", val |-> v, stamp |-> e] :
             v \in 1..MaxVal, e \in IF expire THEN 0..epoch ELSE {0}}
    \cup IF expire THEN {[st |-> "expired", val |-> v, stamp |-> 0] : v \in 1..MaxVal} ELSE {}

\* the snapshot entry of a stored slot, as updateTrie encodes slots
SnapEntryOf(expire, slot) ==
    IF slot.st = "absent" THEN NoSnap
    ELSE IF slot.st = "expired" THEN [exp |-> TRUE, enc |-> <<>>]
    ELSE [exp |-> FALSE,
          enc |-> IF expire
                  THEN EncodeValueToRLPBytes(NewValueWithEpoch(slot.stamp, WordHash(slot.val)))
                  ELSE RlpEncodeString(TrimmedVal(slot.val))]

NewDB(expire, snapOn, epoch, store) ==
    [expire |-> expire,
     snapOn |-> snapOn,
     epoch |-> epoch,
     snap |-> [k \in Keys |-> IF snapOn THEN SnapEntryOf(expire, store[k]) ELSE NoSnap],
     journal |-> <<>>,
     dbErr |-> FALSE,
     stateObjectsDestruct |-> FALSE,
     storages |-> EmptyMap,
     storagesOrigin |-> EmptyMap]

RootOf(store) == [k \in Keys |-> [st |-> store[k].st, val |-> store[k].val]]

\* GetState when every collaborator call succeeds
View(w, k) == GetState(w, k, {}).ret

BaseOf(w) == [view |-> [k \in Keys |-> View(w, k)], bal |-> w.data.Balance,
              nonce |-> w.data.Nonce]

\* lastOp: the call, its key and argument, the value and error it returned,
\* the collaborator reads and the trie writes it made, the collaborator
\* failures it met.  chain counts the calls
\* SetState(key, arg), finalise, updateTrie, commit made one right after the
\* other: 1 after the SetState, 4 after the commit.
NoOp == [op |-> "none", key |-> 0, arg |-> 0, ret |-> 0, err |-> FALSE,
         reads |-> 0, writes |-> {}, chain |-> 0, fail |-> {}]

Op(op, key, arg, ret, err, reads, writes) ==
    [op |-> op, key |-> key, arg |-> arg, ret |-> ret, err |-> err,
     reads |-> reads, writes |-> writes, chain |-> 0, fail |-> {}]

\* the call op as the stage-th call of the chain, when it follows stage - 1
ChainOp(op, stage, ret, err, writes) ==
    IF lastOp.chain = stage - 1 /\ ~err
    THEN [op |-> op, key |-> lastOp.key, arg |-> lastOp.arg, ret |-> ret, err |-> err,
          reads |-> 0, writes |-> writes, chain |-> stage, fail |-> {}]
    ELSE Op(op, 0, 0, ret, err, 0, writes)

InitObject ==
    \E expire \in BOOLEAN, snapOn \in BOOLEAN, epoch \in 1..MaxEpoch :
      (expire \/ epoch = 1) /\
      \E store \in [Keys -> StoredSlots(expire, epoch)] :
        LET acct == IF \A k \in Keys : store[k].st = "absent" THEN NoAccount
                    ELSE Account(0, 0, EmptyCodeHash, RootOf(store))
        IN  /\ s = newObject(NewDB(expire, snapOn, epoch, store), acct)
            /\ lastOp = NoOp

----------------------------------------------------------------------------
(* Calls on the object *)

\* Storage.Copy
Copy(m) == [k \in DOMAIN m |-> m[k]]

\* StateDB.Copy: the tables of the block are copied, the journal is new
CopyDB(db) == [db EXCEPT !.journal = <<>>]

deepCopySharesPending(w, db) ==
    [obj |-> [db |-> db,
              origin |-> w.origin,
              data |-> w.data,
              trie |-> IF w.trie.open THEN CopyTrie(w.trie) ELSE NilTrie,
              code |-> w.code,
              dirtyStorage |-> Copy(w.dirtyStorage),
              originStorage |-> Copy(w.originStorage),
              pendingStorage |-> w.pendingStorage,
              dirtyCode |-> w.dirtyCode,
              pendingReviveTrie |-> IF w.db.expire /\ w.pendingReviveTrie.open
                                    THEN CopyTrie(w.pendingReviveTrie) ELSE NilTrie,
              pendingReviveState |-> IF w.db.expire THEN Copy(w.pendingReviveState)
                                     ELSE EmptyMap,
              pendingAccessedState |-> IF w.db.expire THEN Copy(w.pendingAccessedState)
                                       ELSE EmptyMap,
              originStorageEpoch |-> IF w.db.expire THEN Copy(w.originStorageEpoch)
                                     ELSE EmptyMap],
     shared |-> {"pendingStorage"}]

\* deepCopy(db): the new object and the maps and tries it shares with s (it
\* shares none; the origin record and the code are shared and never written
\* in place)
deepCopy(w, db) ==
    [obj |-> [db |-> db,
              origin |-> w.origin,
              data |-> w.data,
              trie |-> IF w.trie.open THEN CopyTrie(w.trie) ELSE NilTrie,
              code |-> w.code,
              dirtyStorage |-> Copy(w.dirtyStorage),
              originStorage |-> Copy(w.originStorage),
              pendingStorage |-> Copy(w.pendingStorage),
              dirtyCode |-> w.dirtyCode,
              pendingReviveTrie |-> IF w.db.expire /\ w.pendingReviveTrie.open
                                    THEN CopyTrie(w.pendingReviveTrie) ELSE NilTrie,
              pendingReviveState |-> IF w.db.expire THEN Copy(w.pendingReviveState)
                                     ELSE EmptyMap,
              pendingAccessedState |-> IF w.db.expire THEN Copy(w.pendingAccessedState)
                                       ELSE EmptyMap,
              originStorageEpoch |-> IF w.db.expire THEN Copy(w.originStorageEpoch)
                                     ELSE EmptyMap],
     shared |-> {}]

\* no copy made; n counts the calls of a bounded block and is -1 when the
\* calls are not counted
NoCopy ==
    [has |-> FALSE,
     obj |-> newObject(NewDB(FALSE, FALSE, 1, [k \in Keys |-> NoStored]), NoAccount),
     shared |-> {}, n |-> -1]

Counted(c) == IF c.n < 0 THEN c ELSE [c EXCEPT !.n = @ + 1]

\* a map or trie that two objects share holds what the last call wrote to it:
\* old and new are the object the call was made on, before and after
Alias(c, old, new) ==
    IF c.shared = {} THEN c
    ELSE [c EXCEPT !.obj = [f \in DOMAIN c.obj |->
                               IF f \in c.shared /\ new[f] # old[f] THEN new[f]
                               ELSE c.obj[f]]]

WithinBounds(w) ==
    /\ cp.n < MaxCalls
    /\ \A k \in DOMAIN w.pendingAccessedState : w.pendingAccessedState[k] <= MaxAccessCount
    /\ Len(w.db.journal) <= MaxJournal

\* txBase in a run that follows no transaction: the journal is append-only
\* for the object and nothing of such a run reads it, so it is not kept
NoBase == [view |-> [k \in Keys |-> -1], bal |-> -1, nonce |-> -1]

Journaled(w) == IF txBase = NoBase THEN [w EXCEPT !.db.journal = <<>>] ELSE w

\* a call inside a transaction
Call(w, op) ==
    /\ WithinBounds(w)
    /\ s' = Journaled(w)
    /\ lastOp' = op
    /\ cp' = Alias(Counted(cp), s, w)
    /\ UNCHANGED <<txBase, cdc, kv>>

\* a call that ends the transaction: the journal is reset
Boundary(w, op) ==
    /\ WithinBounds(w)
    /\ s' = [w EXCEPT !.db.journal = <<>>]
    /\ lastOp' = op
    /\ txBase' = IF txBase = NoBase THEN NoBase ELSE BaseOf(s')
    /\ cp' = Alias(Counted(cp), s, w)
    /\ UNCHANGED <<cdc, kv>>

\* the failures of a run in which every collaborator call succeeds
NoFailures == {{}}
NoUpdateFailures == {NoUpdateFailure}

\* GetState(k); fs: the collaborator failures that can happen.  A failure is
\* chosen for the calls that are made: f names the calls that return an error.
DoGetState(fs) ==
    \E k \in Keys, f \in fs :
        /\ f = GetStateErrors(s, k, f)
        /\ \E r \in {GetState(s, k, f)} :
            Call(r.w, [Op("GetState", k, 0, r.ret, FALSE, r.calls, {}) EXCEPT !.fail = f])

DoGetCommittedState(fs) ==
    \E k \in Keys, f \in fs :
        /\ f = ReadErrors(s, k, f)
        /\ \E r \in {GetCommittedState(s, k, f)} :
            Call(r.w, [Op("GetCommittedState", k, 0, r.ret, FALSE, r.calls, {})
                          EXCEPT !.fail = f])

DoSetState(fs) ==
    \E k \in Keys, v \in Vals, f \in fs :
        /\ f = GetStateErrors(s, k, f)
        /\ Call(SetState(s, k, v, f),
                [Op("SetState", k, v, 0, FALSE, 0, {}) EXCEPT !.chain = 1, !.fail = f])

DoSetBalance ==
    \E a \in 0..MaxBalance :
        Call(SetBalance(s, a), Op("SetBalance", 0, a, 0, FALSE, 0, {}))

DoSetNonce ==
    \E n \in 0..MaxNonce :
        Call(SetNonce(s, n), Op("SetNonce", 0, n, 0, FALSE, 0, {}))

DoSetCode ==
    \E h \in CodeHashes :
        Call(SetCode(s, h), Op("SetCode", 0, h, 0, FALSE, 0, {}))

DoAddBalance ==
    \E a \in 0..MaxBalance :
        /\ s.data.Balance + a <= MaxBalance
        /\ Call(AddBalance(s, a), Op("AddBalance", 0, a, 0, FALSE, 0, {}))

\* the caller has checked that the balance covers the amount
DoSubBalance ==
    \E a \in 0..MaxBalance :
        /\ a <= s.data.Balance
        /\ Call(SubBalance(s, a), Op("SubBalance", 0, a, 0, FALSE, 0, {}))

\* obj2 = s.deepCopy(db2), db2 a copy of s.db
DoDeepCopy ==
    /\ ~cp.has
    /\ cp.n < MaxCalls
    /\ \E d \in {deepCopy(s, CopyDB(s.db))} :
        cp' = [has |-> TRUE, obj |-> d.obj, shared |-> d.shared, n |-> cp.n + 1]
    /\ lastOp' = Op("deepCopy", 0, 0, 0, FALSE, 0, {})
    /\ UNCHANGED <<s, txBase, cdc, kv>>

\* the next calls are made on the other of the two objects
DoSwap ==
    /\ cp.has
    /\ lastOp.op # "swap"
    /\ s' = cp.obj
    /\ cp' = [cp EXCEPT !.obj = s]
    /\ lastOp' = Op("swap", 0, 0, 0, FALSE, 0, {})
    /\ UNCHANGED <<txBase, cdc, kv>>

\* the journal is reverted to the start of the transaction
DoRevert ==
    /\ s.db.journal # <<>>
    /\ Call(revert(s, s.db.journal), Op("revert", 0, Len(s.db.journal), 0, FALSE, 0, {}))

DoFinaliseReplacesPending ==
    Boundary([finalise(s) EXCEPT !.pendingStorage = s.dirtyStorage],
             ChainOp("finalise", 2, 0, FALSE, {}))

\* the end of a transaction
DoFinalise ==
    Boundary(finalise(s), ChainOp("finalise", 2, 0, FALSE, {}))

DoUpdateTrie(fus) ==
    \E fu \in fus :
        \E r \in {updateTrie(s, fu)} :
            Boundary(r.w, ChainOp("updateTrie", 3, 0, r.err, r.calls))

DoUpdateRoot(fus) ==
    \E fu \in fus :
        \E r \in {updateRoot(s, fu)} :
            Boundary(r.w, Op("updateRoot", 0, 0, 0, r.err, 0, r.calls))

\* commit(); Trie.Commit is reached, and can fail, when updateTrie succeeds
DoCommit(fus, fcs) ==
    \E fu \in fus, failCommit \in fcs :
        /\ failCommit => fu = NoUpdateFailure
        /\ \E r \in {commit(s, fu, failCommit)} :
            Boundary(r.w, ChainOp("commit", 4, IF r.nodes THEN 1 ELSE 0, r.err, r.calls))

\* ReviveStorageTrie(proof) with proof.Key = k, called in expiry mode
DoReviveStorageTrie(fs) ==
    /\ s.db.expire
    /\ \E k \in Keys, f \in fs :
        /\ f = {} \/ f = ReviveErrors(s, k, f)
        /\ \E r \in {ReviveStorageTrie(s, k, f)} :
            Call(r.w, [Op("ReviveStorageTrie", k, 0, r.val, r.err, 0, {})
                          EXCEPT !.fail = ReviveErrors(s, k, f)])

\* The account is destructed in this block and resurrected: its storage is
\* cleared, the tables of the block forget it and a new object stands for it.
DoDestruct ==
    /\ ~s.db.stateObjectsDestruct
    /\ Boundary(newObject([s.db EXCEPT !.stateObjectsDestruct = TRUE,
                                       !.storages = EmptyMap,
                                       !.storagesOrigin = EmptyMap],
                          NoAccount),
                Op("destruct", 0, 0, 0, FALSE, 0, {}))

\* the mutated slots of the committed block reach the snapshot; the slots of
\* a destructed account are wiped first
FlushSnapshot(db) ==
    [k \in Keys |->
        IF ~db.snapOn THEN db.snap[k]
        ELSE IF k \notin DOMAIN db.storages
        THEN (IF db.stateObjectsDestruct THEN NoSnap ELSE db.snap[k])
        ELSE IF db.storages[k] = <<>> THEN NoSnap
        ELSE [exp |-> FALSE, enc |-> db.storages[k]]]

\* the object the next block opens on the committed account
NextBlockObject(w, epoch) ==
    newObject([w.db EXCEPT !.snap = FlushSnapshot(w.db),
                           !.epoch = epoch,
                           !.journal = <<>>,
                           !.stateObjectsDestruct = FALSE,
                           !.storages = EmptyMap,
                           !.storagesOrigin = EmptyMap],
              w.origin)

DoNewBlock ==
    /\ lastOp.op = "commit" /\ ~lastOp.err /\ ~s.db.dbErr
    /\ \E epoch \in {s.db.epoch, s.db.epoch + 1} \cap 1..MaxEpoch :
        /\ s.db.expire \/ epoch = s.db.epoch
        /\ Boundary(NextBlockObject(s, epoch), Op("newBlock", 0, 0, 0, FALSE, 0, {}))

\* storage reads, writes and the commit pipeline; every collaborator call succeeds
NextObject ==
    \/ DoGetState(NoFailures)
    \/ DoGetCommittedState(NoFailures)
    \/ DoSetState(NoFailures)
    \/ DoFinalise
    \/ DoUpdateTrie(NoUpdateFailures)
    \/ DoUpdateRoot(NoUpdateFailures)
    \/ DoCommit(NoUpdateFailures, {FALSE})
    \/ DoReviveStorageTrie(NoFailures)
    \/ DoDestruct
    \/ DoNewBlock

\* one transaction after another on the account, with rollbacks
NextTx ==
    \/ DoGetState(NoFailures)
    \/ DoSetState(NoFailures)
    \/ DoSetBalance
    \/ DoSetNonce
    \/ DoRevert
    \/ DoFinalise
    \/ DoUpdateTrie(NoUpdateFailures)

\* the calls of a block when collaborator calls can fail
NextFail ==
    \/ DoGetState(ReadFailures)
    \/ DoGetCommittedState(ReadFailures)
    \/ DoSetState(ReadFailures)
    \/ DoFinalise
    \/ DoUpdateTrie(UpdateFailures)
    \/ DoCommit(UpdateFailures, BOOLEAN)
    \/ DoReviveStorageTrie(ReviveFailures)
    \/ DoNewBlock

\* the account record and the storage of the account over one block
NextAcct ==
    \/ DoSetState(NoFailures)
    \/ DoSetBalance
    \/ DoSetNonce
    \/ DoSetCode
    \/ DoAddBalance
    \/ DoSubBalance
    \/ DoFinalise
    \/ DoUpdateTrie(NoUpdateFailures)
    \/ DoUpdateRoot(NoUpdateFailures)
    \/ DoCommit(NoUpdateFailures, {FALSE})
    \/ DoReviveStorageTrie(NoFailures)

\* the setters of the account record in the transactions of a block
NextBal ==
    \/ DoSetBalance
    \/ DoSetNonce
    \/ DoSetCode
    \/ DoAddBalance
    \/ DoSubBalance
    \/ DoRevert
    \/ DoFinalise

NextCodec == CodecEncode \/ CodecGetType \/ CodecDecode

vars == <<cdc, s, lastOp, txBase, cp, kv>>

\* a caller holds a SnapValue to encode, or bytes read from the store
InitCodec ==
    /\ \/ \E v \in SnapInputs : cdc = [CodecIdle EXCEPT !.pc = "value", !.in = v]
       \/ \E b \in ByteInputs : cdc = [CodecIdle EXCEPT !.pc = "bytes", !.enc = b]
    /\ s = newObject(NewDB(FALSE, FALSE, 1, [k \in Keys |-> NoStored]), NoAccount)
    /\ lastOp = NoOp
    /\ txBase = NoBase
    /\ cp = NoCopy
    /\ kv = NoRecords

\* the account at the start of a block
InitBlock ==
    InitObject /\ txBase = NoBase /\ cdc = CodecIdle /\ cp = NoCopy /\ kv = NoRecords

\* the account at the start of a transaction
InitTx ==
    InitObject /\ txBase = BaseOf(s) /\ cdc = CodecIdle /\ cp = NoCopy /\ kv = NoRecords

\* the account at the start of a block of at most MaxCalls calls
InitAcct ==
    /\ InitObject /\ txBase = NoBase /\ cdc = CodecIdle
    /\ cp = [NoCopy EXCEPT !.n = 0] /\ kv = NoRecords

\* ShrinkExpiredSubTree(db, accountHash, path, epoch, nodeHash); lastOp.chain
\* counts the calls of a run
DoShrinkExpiredSubTree ==
    \E accountHash \in Accounts, path \in Paths, epoch \in ShrinkEpochs,
       nodeHash \in ShrinkHashes, fail \in ShrinkFailures :
        /\ lastOp.chain < MaxShrinks
        /\ fail = "delete" => SeekerKeys(kv, accountHash, path) # {}
        /\ \E r \in {ShrinkExpiredSubTree(kv, accountHash, path, epoch, nodeHash, fail)} :
            /\ kv' = r.db
            /\ lastOp' = [NoOp EXCEPT !.op = "ShrinkExpiredSubTree", !.key = accountHash,
                                      !.arg = [path |-> path, epoch |-> epoch,
                                               nodeHash |-> nodeHash],
                                      !.err = r.err, !.chain = lastOp.chain + 1]
        /\ UNCHANGED <<s, txBase, cp, cdc>>

\* the store before a run of ShrinkExpiredSubTree calls
InitShrink ==
    /\ kv \in [RecordKeys -> {<<>>, FlatRecord}]
    /\ s = newObject(NewDB(FALSE, FALSE, 1, [k \in Keys |-> NoStored]), NoAccount)
    /\ lastOp = NoOp
    /\ txBase = NoBase
    /\ cp = NoCopy
    /\ cdc = CodecIdle

NextShrink == DoShrinkExpiredSubTree

SpecShrink == InitShrink /\ [][NextShrink]_vars

\* the codec on its own
SpecCodec == InitCodec /\ [][NextCodec]_vars

\* the state object over the blocks of a chain
Spec == InitBlock /\ [][NextObject]_vars

\* the transactions of a block, with rollbacks
SpecTx == InitTx /\ [][NextTx]_vars

\* the account record and the storage over a block
SpecAcct == InitAcct /\ [][NextAcct]_vars

\* an object and its deep copy in a block of at most MaxCalls calls
NextCopy ==
    \/ DoGetState(NoFailures)
    \/ DoSetState(NoFailures)
    \/ DoSetBalance
    \/ DoSetNonce
    \/ DoFinalise
    \/ DoUpdateTrie(NoUpdateFailures)
    \/ DoReviveStorageTrie(NoFailures)
    \/ DoDeepCopy
    \/ DoSwap

SpecCopy == InitAcct /\ [][NextCopy]_vars

\* the account record over the transactions of a block, with rollbacks
SpecBal == InitTx /\ [][NextBal]_vars

\* the state object over the blocks of a chain, with failing collaborators
SpecFail == InitBlock /\ [][NextFail]_vars

----------------------------------------------------------------------------
(* Properties of the SnapValue codec, checked under SpecCodec *)

\* C4: for every RawValue v, of length one or starting with 0, 1 or 2 too,
\* DecodeValueFromRLPBytes(EncodeValueToRLPBytes(v)) succeeds and returns a
\* RawValue equal to v.
C4_RawRoundTrip ==
    (cdc.pc = "done" /\ cdc.in.type = RawValueType)
        => (cdc.dec.st = "ok" /\ cdc.dec.sv = cdc.in)

\* C5: for every ValueWithEpoch and ShrinkNodeWithEpoch v,
\* DecodeValueFromRLPBytes(EncodeValueToRLPBytes(v)) succeeds and returns the
\* same variant with the same epoch and the same 32-byte payload.
C5_TaggedRoundTrip ==
    (cdc.pc = "done" /\ cdc.in.type \in {ValueWithEpochType, ShrinkNodeWithEpochType})
        => /\ cdc.dec.st = "ok"
           /\ GetType(cdc.dec.sv) = GetType(cdc.in)
           /\ GetEpoch(cdc.dec.sv) = GetEpoch(cdc.in)
           /\ cdc.dec.sv.val = cdc.in.val

\* a shrink node with a two-byte epoch and a payload with a leading zero byte
\* went through encode and decode
C5_Witness ==
    /\ cdc.pc = "done" /\ cdc.dec.st = "ok"
    /\ cdc.in.type = ShrinkNodeWithEpochType
    /\ cdc.in.epoch > 255
    /\ cdc.in.val[1] = 0 /\ cdc.in.val[HashLength] # 0

\* C6: for every SnapValue v, GetValueTypeFromRLPBytes(EncodeValueToRLPBytes(v))
\* is v.GetType(), and the encoding of every RawValue starts with a byte
\* greater than 0x7F.
C6_FirstByteDetermines ==
    (cdc.pc = "typed" /\ cdc.in # NoValue)
        => /\ cdc.ty = GetType(cdc.in)
           /\ cdc.in.type = RawValueType => (Len(cdc.enc) > 0 /\ cdc.enc[1] > 127)

\* C7: DecodeValueFromRLPBytes on a zero-length input returns an error; it
\* does not crash and returns no value.
C7_EmptyRejected ==
    (cdc.pc = "done" /\ cdc.in = NoValue /\ cdc.enc = <<>>) => cdc.dec.st = "err"

\* C8: for a non-empty input with first byte at most 0x7F,
\* DecodeValueFromRLPBytes never returns a RawValue: first byte 1 gives a
\* ValueWithEpoch or a payload decode error, first byte 2 a ShrinkNodeWithEpoch
\* or a payload decode error, any other first byte the unsupported-type error.
C8_DecodeGuard ==
    (cdc.pc = "done" /\ Len(cdc.enc) > 0 /\ cdc.enc[1] <= 127)
        => /\ ~(cdc.dec.st = "ok" /\ GetType(cdc.dec.sv) = RawValueType)
           /\ cdc.dec.st \in {"ok", "err"}
           /\ cdc.enc[1] \in {ValueWithEpochType, ShrinkNodeWithEpochType}
                => \/ cdc.dec.st = "ok" /\ GetType(cdc.dec.sv) = cdc.enc[1]
                   \/ cdc.dec.st = "err" /\ cdc.dec.sv = ErrRlp
           /\ cdc.enc[1] \notin {ValueWithEpochType, ShrinkNodeWithEpochType}
                => cdc.dec.st = "err" /\ cdc.dec.sv = ErrSnapValueNotSupport

\* the one byte 0x01 read from the store was decoded: a payload error, not
\* the raw value 0x01
C8_Witness ==
    /\ cdc.pc = "done" /\ cdc.in = NoValue
    /\ cdc.enc = <<ValueWithEpochType>>
    /\ cdc.dec.st = "err" /\ cdc.dec.sv = ErrRlp

----------------------------------------------------------------------------
(* Properties of the state object, checked under Spec and SpecTx *)

\* C1: GetState returns the value of the first tier holding the key, in the
\* order dirtyStorage, pendingStorage, originStorage; after SetState(k, v)
\* followed by finalise, GetState(k) returns v whatever pendingStorage or
\* originStorage held for k before.
C1_PriorityOrder ==
    /\ \A k \in Keys :
        LET r == GetState(s, k, {}).ret
        IN  IF k \in DOMAIN s.dirtyStorage THEN r = s.dirtyStorage[k]
            ELSE IF k \in DOMAIN s.pendingStorage THEN r = s.pendingStorage[k]
            ELSE k \in DOMAIN s.originStorage => r = s.originStorage[k]
    /\ lastOp.op = "GetState" =>
        LET k == lastOp.key
        IN  IF k \in DOMAIN s.dirtyStorage THEN lastOp.ret = s.dirtyStorage[k]
            ELSE IF k \in DOMAIN s.pendingStorage THEN lastOp.ret = s.pendingStorage[k]
            ELSE k \in DOMAIN s.originStorage => lastOp.ret = s.originStorage[k]
    /\ (lastOp.op = "finalise" /\ lastOp.chain = 2) =>
        GetState(s, lastOp.key, {}).ret = lastOp.arg

\* SetState(k, v) and finalise were called while originStorage holds another
\* value for k
C1_Witness ==
    /\ lastOp.op = "finalise" /\ lastOp.chain = 2
    /\ lastOp.key \in DOMAIN s.originStorage
    /\ s.originStorage[lastOp.key] # lastOp.arg
    /\ s.pendingStorage[lastOp.key] = lastOp.arg

\* C2: after SetState(K, V), finalise, updateTrie and commit, a fresh object
\* opened on the resulting storage root returns GetState(K) = V when V is
\* non-zero, and when V is zero the trie holds no record for K.
C2_CommitRoundTrip ==
    (lastOp.op = "commit" /\ lastOp.chain = 4) =>
        LET k == lastOp.key
            v == lastOp.arg
        IN  /\ v # 0 => View(NextBlockObject(s, s.db.epoch), k) = v
            /\ v = 0 => s.data.Root[k].st # "live"

\* what every state of a transaction reverts to
C3_Restores ==
    LET r == revert(s, s.db.journal)
    IN  /\ \A k \in Keys : View(r, k) = txBase.view[k]
        /\ r.data.Balance = txBase.bal
        /\ r.data.Nonce = txBase.nonce

\* what a mutation appends to the journal
C3_Appends ==
    /\ (lastOp'.op = "SetState" /\ View(s, lastOp'.key) # lastOp'.arg) =>
        s'.db.journal = Append(s.db.journal,
                               JournalEntry("storage", lastOp'.key, View(s, lastOp'.key)))
    /\ lastOp'.op = "SetBalance" =>
        s'.db.journal = Append(s.db.journal, JournalEntry("balance", 0, s.data.Balance))
    /\ lastOp'.op = "SetNonce" =>
        s'.db.journal = Append(s.db.journal, JournalEntry("nonce", 0, s.data.Nonce))

\* C3: undoing the records appended by the SetState, SetBalance and SetNonce
\* calls of a transaction, last first, makes GetState(k) for every key, the
\* balance and the nonce what they were before the transaction; every
\* effective mutation appends exactly one record with the value observed
\* immediately before it.
C3_RollbackSufficiency == [](C3_Restores) /\ [][C3_Appends]_vars

\* a transaction that wrote a slot and then the balance or nonce was reverted
C3_Witness ==
    /\ lastOp.op = "revert" /\ lastOp.arg = 2
    /\ DOMAIN s.dirtyStorage # {}
    /\ \E k \in Keys : View(s, k) = txBase.view[k] /\ View(s, k) # Get(s.pendingStorage, k)

\* C9: in expiry mode, after ReviveStorageTrie succeeds for raw key K,
\* GetCommittedState(K) returns the revived value: the entry stored in
\* pendingReviveState is the one the read path looks up for K.
C9_RevivalPrecedence ==
    (lastOp.op = "ReviveStorageTrie" /\ ~lastOp.err
        /\ lastOp.key \notin DOMAIN s.pendingStorage) =>
        GetCommittedState(s, lastOp.key, {}).ret = lastOp.ret

\* C10 as stated: once the account is marked destructed in the block,
\* GetCommittedState(k) returns zero for every key k not in pendingStorage.
C10_DestructGating ==
    s.db.stateObjectsDestruct =>
        \A k \in Keys \ DOMAIN s.pendingStorage : GetCommittedState(s, k, {}).ret = 0

\* C10: once the account is marked destructed in the block,
\* GetCommittedState(k) returns zero for every key k that is neither in
\* pendingStorage nor in originStorage, whatever the snapshot or trie hold.
C10_DestructGatingAmended ==
    s.db.stateObjectsDestruct =>
        /\ \A k \in Keys \ (DOMAIN s.pendingStorage \cup DOMAIN s.originStorage) :
            GetCommittedState(s, k, {}).ret = 0
        /\ (lastOp.op = "GetCommittedState"
                /\ lastOp.key \notin DOMAIN s.pendingStorage \cup DOMAIN s.originStorage)
            => lastOp.ret = 0 /\ lastOp.reads = 0

\* a slot the snapshot still holds was read after the destruct
C10_Witness ==
    /\ s.db.stateObjectsDestruct /\ s.db.snapOn
    /\ lastOp.op = "GetCommittedState" /\ lastOp.ret = 0
    /\ lastOp.key \notin DOMAIN s.pendingStorage \cup DOMAIN s.originStorage
    /\ s.db.snap[lastOp.key] # NoSnap

\* a key no transaction of the block has written
Untouched(w, k) == k \notin DOMAIN w.dirtyStorage \cup DOMAIN w.pendingStorage

WorkingSlots(w) ==
    IF w.pendingReviveTrie.open THEN w.pendingReviveTrie.c
    ELSE IF w.trie.open THEN w.trie.c
    ELSE w.data.Root

\* the epoch stamp the snapshot holds for a slot; -1 when it holds none
SnapStamp(w, k) ==
    IF ~w.db.snapOn \/ w.db.snap[k].exp \/ w.db.snap[k].enc = <<>> THEN -1
    ELSE IF DecodeValueFromRLPBytes(w.db.snap[k].enc).st # "ok" THEN -1
    ELSE GetEpoch(DecodeValueFromRLPBytes(w.db.snap[k].enc).sv)

\* in expiry mode the slot is stored with a non-zero value and a stamp older
\* than the current epoch; without a snapshot the stamp is known to the trie
\* alone
StaleStored(w, k) ==
    /\ w.db.expire
    /\ WorkingSlots(w)[k].st = "live"
    /\ w.db.snapOn => (SnapStamp(w, k) >= 0 /\ SnapStamp(w, k) < w.db.epoch)

\* the transactions of the block leave the slot another value than it stores
Rewritten(w, k) ==
    /\ k \in DOMAIN finalise(w).pendingStorage
    /\ finalise(w).pendingStorage[k] # WorkingSlots(w)[k].val

\* a read of a stale slot marks it; a key in dirtyStorage is read from there,
\* not from the slot
C12_ReadMarks ==
    (/\ lastOp.op = "GetState" /\ lastOp.ret # 0
     /\ lastOp.key \notin DOMAIN s.dirtyStorage
     /\ StaleStored(s, lastOp.key)) =>
        lastOp.key \in DOMAIN s.pendingAccessedState

\* the next updateTrie writes a marked stale slot back
C12_UpdateRefreshes ==
    \A k \in Keys :
        (/\ lastOp'.op \in {"updateTrie", "updateRoot", "commit"} /\ ~lastOp'.err
         /\ k \in DOMAIN s.pendingAccessedState
         /\ StaleStored(s, k) /\ ~Rewritten(s, k)) =>
            LET v == WorkingSlots(s)[k].val
            IN  /\ TrieCall("update", k, TrimmedVal(v)) \in lastOp'.writes
                /\ WorkingSlots(s')[k] = LiveSlot(v)
                /\ k \in DOMAIN s'.db.storages
                /\ s'.db.storages[k] =
                       EncodeValueToRLPBytes(NewValueWithEpoch(s.db.epoch, WordHash(v)))

\* C12: in expiry mode a GetState read of a non-zero slot whose stored epoch
\* stamp is older than the current epoch puts the key in pendingAccessedState,
\* and the next updateTrie, if the key was not otherwise rewritten, writes the
\* slot back with the same value and the current epoch as its stamp.
C12_AccessEpochRefresh == [](C12_ReadMarks) /\ [][C12_UpdateRefreshes]_vars

\* a slot stamped in epoch 1 was read in epoch 2 and updateTrie wrote it back
\* with the stamp 2
C12_Witness ==
    /\ s.db.expire /\ s.db.snapOn /\ s.db.epoch = 2
    /\ lastOp.op = "updateTrie"
    /\ \E k \in Keys :
        /\ SnapStamp(s, k) = 1
        /\ lastOp.writes = {TrieCall("update", k, TrimmedVal(WorkingSlots(s)[k].val))}
        /\ s.db.storages[k] =
               EncodeValueToRLPBytes(NewValueWithEpoch(2, WordHash(WorkingSlots(s)[k].val)))
        /\ k \in DOMAIN s.originStorage /\ s.originStorage[k] = WorkingSlots(s)[k].val

\* C13: SetState(key, v) where v equals the current GetState(key) appends no
\* undo record to the journal and leaves dirtyStorage unchanged.
C13_NoOpDetection ==
    [][(lastOp'.op = "SetState" /\ View(s, lastOp'.key) = lastOp'.arg) =>
           /\ s'.db.journal = s.db.journal
           /\ s'.dirtyStorage = s.dirtyStorage]_vars

\* SetState was called with the non-zero value the store holds for the key,
\* after another write of the transaction
C13_Witness ==
    /\ lastOp.op = "SetState" /\ lastOp.arg # 0
    /\ lastOp.key \notin DOMAIN s.dirtyStorage \cup DOMAIN s.pendingStorage
    /\ lastOp.key \in DOMAIN s.originStorage
    /\ s.originStorage[lastOp.key] = lastOp.arg
    /\ Len(s.db.journal) = 1

----------------------------------------------------------------------------
(* Properties of the error paths, checked under SpecFail *)

\* C14 as stated: whenever a snapshot or trie collaborator call returns an
\* error during GetCommittedState, the sticky error flag of the database is
\* set and the read returns the zero value.
C14_ReadFailure ==
    (lastOp.op \in {"GetCommittedState", "GetState"} /\ lastOp.fail # {}) =>
        s.db.dbErr /\ lastOp.ret = 0

\* the value a trie holds for a key: zero when it holds no readable record
SlotValue(c, k) == IF c[k].st = "live" THEN c[k].val ELSE 0

\* C14: whenever opening the trie or the trie read returns an I/O error
\* during GetCommittedState, the sticky error flag of the database is set, the
\* read returns the zero value and caches nothing; an I/O error of the
\* snapshot read sets no flag: the read falls back to the trie and returns
\* what the trie returns.
C14_ReadFailureAmended ==
    [][lastOp'.op \in {"GetCommittedState", "GetState"} =>
         /\ lastOp'.fail \cap {"open", "get"} # {} =>
               /\ s'.db.dbErr /\ lastOp'.ret = 0
               /\ s'.originStorage = s.originStorage
         /\ lastOp'.fail = {"snap"} =>
               /\ s'.db.dbErr = s.db.dbErr
               /\ lastOp'.ret = SlotValue(s'.trie.c, lastOp'.key)
               /\ lastOp'.key \in DOMAIN s'.originStorage
               /\ s'.originStorage[lastOp'.key] = lastOp'.ret]_vars

\* the snapshot read failed and then the trie read: the error is recorded
\* and nothing is cached
C14_Witness ==
    /\ lastOp.op = "GetCommittedState" /\ lastOp.fail = {"snap", "get"}
    /\ s.db.dbErr /\ lastOp.ret = 0
    /\ lastOp.key \notin DOMAIN s.originStorage
    /\ s.trie.open /\ s.trie.c[lastOp.key].st = "live"

\* C15: when ReviveStorageTrie fails, at the proof splice or at the read-back
\* of the value, it returns an error and leaves no partial revival state
\* pending: pendingReviveState and the slots of the pending revive trie are as
\* they were before the call.
C15_RevivalFailure ==
    [][(lastOp'.op = "ReviveStorageTrie" /\ lastOp'.err) =>
           /\ s'.pendingReviveState = s.pendingReviveState
           /\ WorkingSlots(s') = WorkingSlots(s)]_vars

----------------------------------------------------------------------------
(* Properties of the account record, checked under SpecAcct *)

OriginKept ==
    {"SetState", "SetBalance", "SetNonce", "SetCode", "AddBalance", "SubBalance",
     "finalise", "updateTrie", "updateRoot", "ReviveStorageTrie"}

\* C16: origin changes only in commit.  SetState, SetBalance, SetNonce,
\* SetCode, AddBalance, SubBalance, finalise, updateTrie, updateRoot and
\* ReviveStorageTrie leave origin as it was; after a commit that returns no
\* error origin equals data, and the root in both is the hash of the
\* committed storage trie when there is one.
C16_OriginOnlyInCommit ==
    [][/\ lastOp'.op \in OriginKept => s'.origin = s.origin
       /\ (lastOp'.op = "commit" /\ ~lastOp'.err) =>
              /\ s'.origin = s'.data
              /\ s'.trie.open => s'.origin.Root = TrieHash(s'.trie)]_vars

\* a commit that moved a new balance and a new storage root into origin
C16_Witness ==
    /\ lastOp.op = "commit" /\ ~lastOp.err /\ lastOp.writes # {}
    /\ s.origin = s.data
    /\ s.origin.Balance > 0
    /\ s.trie.open /\ s.origin.Root = TrieHash(s.trie)
    /\ \E k \in Keys : s.origin.Root[k].st = "live" /\ s.origin.Root[k].val # 0

----------------------------------------------------------------------------
(* Properties of deepCopy, checked under SpecCopy *)

\* C17: deepCopy independence.  After obj2 = obj1.deepCopy(db2), a SetState,
\* finalise, updateTrie, ReviveStorageTrie, SetBalance or SetNonce (or a read)
\* on one of the two objects leaves the other's dirtyStorage, pendingStorage,
\* originStorage, expiry tables and revive trie, account data and GetState
\* results as they were, whichever of the two the call is made on.
C17_DeepCopyIndependence ==
    [][(cp.has /\ lastOp'.op \notin {"deepCopy", "swap"}) =>
          /\ cp'.obj.dirtyStorage = cp.obj.dirtyStorage
          /\ cp'.obj.pendingStorage = cp.obj.pendingStorage
          /\ cp'.obj.originStorage = cp.obj.originStorage
          /\ cp'.obj.pendingReviveState = cp.obj.pendingReviveState
          /\ cp'.obj.pendingAccessedState = cp.obj.pendingAccessedState
          /\ cp'.obj.originStorageEpoch = cp.obj.originStorageEpoch
          /\ cp'.obj.pendingReviveTrie = cp.obj.pendingReviveTrie
          /\ cp'.obj.trie = cp.obj.trie
          /\ cp'.obj.data = cp.obj.data
          /\ \A k \in Keys : View(cp'.obj, k) = View(cp.obj, k)]_vars

\* both objects were written after the copy: the one called last has flushed
\* a slot to its trie, the other holds a dirty slot of its own
C17_Witness ==
    /\ cp.has
    /\ lastOp.op = "updateTrie" /\ lastOp.writes # {}
    /\ cp.obj.dirtyStorage # EmptyMap
    /\ s.dirtyStorage = EmptyMap
    /\ s.trie # cp.obj.trie

----------------------------------------------------------------------------
(* Properties of finalise, checked under Spec *)

\* the trie writes of the next updateTrie
NextWrites(w) == updateTrie(w, NoUpdateFailure).calls

\* C18: finalise idempotence.  A finalise called right after a finalise, with
\* no write in between, leaves pendingStorage and dirtyStorage as the first
\* call left them, and the next updateTrie makes the trie writes it would have
\* made after the first call alone.  Stated of the second call as a step and
\* of finalise applied to the state the first call left.
C18_FinaliseIdempotence ==
    /\ [](lastOp.op = "finalise" =>
             /\ finalise(s).pendingStorage = s.pendingStorage
             /\ finalise(s).dirtyStorage = s.dirtyStorage
             /\ NextWrites(finalise(s)) = NextWrites(s))
    /\ [][(lastOp.op = "finalise" /\ lastOp'.op = "finalise") =>
             /\ s'.pendingStorage = s.pendingStorage
             /\ s'.dirtyStorage = s.dirtyStorage
             /\ NextWrites(s') = NextWrites(s)]_vars

\* a finalise that moved a write into pendingStorage, which the next
\* updateTrie will write to the trie
C18_Witness ==
    /\ lastOp.op = "finalise"
    /\ s.pendingStorage # EmptyMap
    /\ s.dirtyStorage = EmptyMap
    /\ NextWrites(s) # {}

----------------------------------------------------------------------------
(* Properties of the balance operations, checked under SpecBal *)

TouchRecord == JournalEntry("touch", 0, 0)

BalanceRecord(prev) == JournalEntry("balance", 0, prev)

\* AddBalance with a non-zero amount: one undo record with the previous
\* balance, and the balance is the previous balance plus the amount
AddedNonZero ==
    /\ s'.db.journal = Append(s.db.journal, BalanceRecord(s.data.Balance))
    /\ s'.data = [s.data EXCEPT !.Balance = s.data.Balance + lastOp'.arg]

\* C19 as claimed: AddBalance(0) appends a touch record to the journal and
\* leaves the balance as it was, with no balance undo record; AddBalance of a
\* non-zero amount sets the balance to the previous balance plus the amount
\* and appends one undo record holding the previous balance.
C19_AddBalance ==
    [][lastOp'.op = "AddBalance" =>
          IF lastOp'.arg = 0
          THEN /\ s'.db.journal = Append(s.db.journal, TouchRecord)
               /\ s'.data = s.data
          ELSE AddedNonZero]_vars

\* C19 amended: AddBalance(0) appends the touch record when the account is
\* empty (nonce 0, balance 0, empty code hash) and appends nothing when it is
\* not; in both cases the balance is as it was and there is no balance undo
\* record.  The non-zero case is as claimed.
C19_AddBalanceAmended ==
    [][lastOp'.op = "AddBalance" =>
          IF lastOp'.arg = 0
          THEN /\ s'.db.journal = IF empty(s) THEN Append(s.db.journal, TouchRecord)
                                   ELSE s.db.journal
               /\ s'.data = s.data
          ELSE AddedNonZero]_vars

\* AddBalance(0) touched an account that is empty although it has been
\* written before in the transaction
C19_Witness ==
    /\ lastOp.op = "AddBalance" /\ lastOp.arg = 0
    /\ Len(s.db.journal) > 1
    /\ s.db.journal[Len(s.db.journal)] = TouchRecord
    /\ empty(s)

----------------------------------------------------------------------------
(* Properties of the commit path under failures, checked under SpecFail *)

\* C20: commit-path errors.  When commit returns an error (opening the trie,
\* a trie delete or update inside updateTrie, or the trie commit failed), it
\* returns no node set, origin is what it was before the call, and so is the
\* storage root in data.
C20_CommitPathErrors ==
    [][(lastOp'.op = "commit" /\ lastOp'.err) =>
          /\ lastOp'.ret = 0
          /\ s'.origin = s.origin
          /\ s'.data.Root = s.data.Root]_vars

\* a commit that failed after it had written to the trie, so that the hash
\* of the trie is no longer the root in data
C20_Witness ==
    /\ lastOp.op = "commit" /\ lastOp.err /\ lastOp.ret = 0
    /\ lastOp.writes # {}
    /\ WorkingSlots(s) # s.data.Root
    /\ s.origin # s.data

----------------------------------------------------------------------------
(* Properties of the tables of mutated slots, checked under Spec *)

\* the calls that run updateTrie
RunsUpdateTrie == {"updateTrie", "updateRoot", "commit"}

\* the entry of the origin-diff table for a slot that held v: nil for zero
OriginEntry(v) == IF v = 0 THEN <<>> ELSE RlpEncodeString(TrimmedVal(v))

\* the value of slot k in the trie the object works on
TrieValue(w, k) == SlotValue(WorkingSlots(w), k)

\* C21: origin diff.  Within a block the entry of storagesOrigin for a slot
\* is written only by an updateTrie (also when run by updateRoot or commit)
\* that changes the slot in the trie while the slot has no entry yet; the
\* entry holds the value the slot had before that change, nil when it was
\* zero or absent; an entry is never overwritten, and no other call writes
\* the table.
C21_OriginDiff ==
    [][lastOp'.op \notin {"newBlock", "destruct"} =>
          \A k \in Keys :
              /\ k \in DOMAIN s.db.storagesOrigin =>
                     /\ k \in DOMAIN s'.db.storagesOrigin
                     /\ s'.db.storagesOrigin[k] = s.db.storagesOrigin[k]
              /\ (k \notin DOMAIN s.db.storagesOrigin /\ k \in DOMAIN s'.db.storagesOrigin) =>
                     /\ lastOp'.op \in RunsUpdateTrie
                     /\ TrieValue(s', k) # TrieValue(s, k)
                     /\ s'.db.storagesOrigin[k] = OriginEntry(TrieValue(s, k))
              /\ (lastOp'.op \in RunsUpdateTrie /\ ~lastOp'.err
                    /\ TrieValue(s', k) # TrieValue(s, k)) =>
                     k \in DOMAIN s'.db.storagesOrigin]_vars

\* C22: after every updateTrie that returns no error pendingStorage is empty
\* and, in expiry mode, so are pendingReviveState and pendingAccessedState; an
\* updateTrie called again right after it needs no update, makes no trie
\* update or delete and leaves the object as it is.
C22_UpdateTrieDrains ==
    (lastOp.op = "updateTrie" /\ ~lastOp.err) =>
        /\ s.pendingStorage = EmptyMap
        /\ s.db.expire => /\ s.pendingReviveState = EmptyMap
                          /\ s.pendingAccessedState = EmptyMap
        /\ ~needUpdateTrie(finalise(s))
        /\ updateTrie(s, NoUpdateFailure).calls = {}
        /\ ~updateTrie(s, NoUpdateFailure).err
        /\ updateTrie(s, NoUpdateFailure).w = s

\* an updateTrie in expiry mode that wrote to the trie
C22_Witness ==
    /\ lastOp.op = "updateTrie" /\ ~lastOp.err
    /\ s.db.expire
    /\ lastOp.writes # {}
    /\ s.db.storages # EmptyMap
    /\ s.pendingStorage = EmptyMap
    /\ s.pendingAccessedState = EmptyMap

\* C23: updateTrie never writes a zero value to the trie as an update.  Every
\* UpdateStorage call it makes, in the loop over pendingStorage and in the
\* loop over the accessed slots, carries a non-zero value, and so does every
\* non-nil entry of the table of mutated slots; a zero slot is deleted or
\* left alone.
C23_NoZeroUpdate ==
    lastOp.op \in RunsUpdateTrie =>
        /\ \A c \in lastOp.writes : c.op = "update" => c.val # TrimmedVal(0)
        /\ \A k \in DOMAIN s.db.storages :
               s.db.storages[k] # snapshotValOf(s, TrimmedVal(0))

\* in expiry mode the snapshot holds the slot with the stamp of the current
\* epoch
FreshStored(w, k) == w.db.expire /\ SnapStamp(w, k) = w.db.epoch

\* C24: in expiry mode a read is a stale access only when the stored stamp of
\* the slot is older than the current epoch.  After any reads, writes and
\* updateTrie calls of the block, a GetState of a slot stored with the stamp
\* of the current epoch adds nothing to pendingAccessedState (and so causes
\* no epoch refresh of the slot).
C24_FreshNotMarked ==
    [][(lastOp'.op = "GetState" /\ FreshStored(s, lastOp'.key)) =>
          s'.pendingAccessedState = s.pendingAccessedState]_vars

----------------------------------------------------------------------------
(* Properties of reads across the commit pipeline, checked under Spec *)

----------------------------------------------------------------------------
(* Properties of a failed updateTrie, checked under SpecFail *)

\* the trie write of updateTrie for a changed pending slot fails, the rounds
\* before it having succeeded
WriteFailures(w) ==
    {fu \in UpdateFailures :
        /\ fu.phase = "pending"
        /\ fu.at \in DOMAIN finalise(w).pendingStorage
        /\ finalise(w).pendingStorage[fu.at] # Get(w.originStorage, fu.at)
        /\ updateTrie(w, fu).err
        /\ \E c \in updateTrie(w, NoUpdateFailure).calls : c.key = fu.at}

\* C26: a failed updateTrie loses no pending write.  When the trie update or
\* delete for key k fails, originStorage[k] is what it was before the call
\* and k is still in pendingStorage, and an updateTrie called after it makes
\* the trie write for k.
C26_FailedWriteKept ==
    \A fu \in WriteFailures(s) :
        /\ Get(updateTrie(s, fu).w.originStorage, fu.at) = Get(s.originStorage, fu.at)
        /\ fu.at \in DOMAIN updateTrie(s, fu).w.pendingStorage
        /\ \E c \in updateTrie(updateTrie(s, fu).w, NoUpdateFailure).calls : c.key = fu.at

----------------------------------------------------------------------------
(* Properties of ShrinkExpiredSubTree, checked under SpecShrink *)

\* the record a call puts in place of the subtree
Placeholder(arg) == EncodeValueToRLPBytes(NewShrinkNodeWithEpoch(arg.epoch, arg.nodeHash))

\* C27: ShrinkExpiredSubTree is all-or-nothing and leaves exactly the
\* placeholder.  When it returns no error the store holds the encoded
\* ShrinkNodeWithEpoch{epoch, nodeHash} under the account at the key made of
\* the path, also when a record was there before, and no other record of the
\* account under the path; when it returns an error the store is as it was.
C27_ShrinkLeavesPlaceholder ==
    [][lastOp'.op = "ShrinkExpiredSubTree" =>
          IF lastOp'.err THEN kv' = kv
          ELSE \A h \in StoreHashes :
                  HasPrefix(h, lastOp'.arg.path) =>
                      kv'[<<lastOp'.key, h>>] =
                          IF h = BytesToHashLeft(lastOp'.arg.path)
                          THEN Placeholder(lastOp'.arg) ELSE <<>>]_vars

====
